---- MODULE Spec2Model ----
(***************************************************************************)
(* Model of src/client.py: MCPClient, the bridge between a chat-completion *)
(* API and a remote tool server.  The state is the client object           *)
(* (self.messages, self.available_tools), the position of the chat loop /  *)
(* process_query / process_openai_response coroutine, its locals (choice,  *)
(* tool_call) and the outcome the chat loop observes.  Steps are cut at    *)
(* the points where the coroutine hands control to the outside: input(),   *)
(* the completion call, session.call_tool.                                 *)
(***************************************************************************)
EXTENDS Integers, Sequences, FiniteSets, TLC

(* ---------------------------- bounds ----------------------------------- *)
MaxQueries == 2      \* non-empty queries typed in one session
MaxRounds  == 2      \* tool rounds (tool_calls responses acted on) in one session
MaxCalls   == 2      \* tool-call requests in one assistant message
MaxChoices == 2      \* choices in one completion response

(* ---------------------------- values ----------------------------------- *)
None == "None"                         \* Python None (absent content / id)
NoCalls == << >>                       \* message without tool_calls

AnswerTexts  == {"t1", "t2"}           \* text of a final assistant message
ToolCallIds  == {"call_1", "call_2"}
ToolNames    == {"add"}
ArgTexts     == {"{\"a\": 2, \"b\": 3}", "{\"a\": 2"}
ToolContents == {"5"}                  \* result.content of a call_tool that returns
OtherReasons == {"length"}             \* finish_reason neither tool_calls nor stop

SeqsUpTo(S, n) == UNION {[1..k -> S] : k \in 1..n}

Msg(role, content, id, calls) ==
    [role |-> role, content |-> content, tool_call_id |-> id, tool_calls |-> calls]

ToolCallRequests == [id : ToolCallIds, name : ToolNames, arguments : ArgTexts]

\* the requests of one assistant message: the API gives each its own id. The client
\* never looks inside an id, so a message with a single request is taken with the
\* id call_1 only; messages with two requests carry the ids in either order.
UniqueIds(tcs) ==
    /\ \A i, j \in 1..Len(tcs) : tcs[i].id = tcs[j].id => i = j
    /\ Len(tcs) = 1 => tcs[1].id = "call_1"

ToolCallLists == {tcs \in SeqsUpTo(ToolCallRequests, MaxCalls) : UniqueIds(tcs)}

Choices ==
       { [finish_reason |-> "tool_calls", message |-> Msg("assistant", None, None, tcs)] :
            tcs \in ToolCallLists }
  \cup { [finish_reason |-> "stop", message |-> Msg("assistant", c, None, NoCalls)] :
            c \in AnswerTexts \cup {None} }
  \cup { [finish_reason |-> r, message |-> Msg("assistant", None, None, NoCalls)] :
            r \in OtherReasons }

\* no completion call issued yet
NoRequest == [messages |-> << >>, tools |-> << >>, issued |-> FALSE]

NoChoice == [finish_reason |-> None, message |-> Msg(None, None, None, NoCalls)]

(* what the tool server hands out at bootstrap *)
ToolDescriptorLists ==
    { << [name |-> "add", description |-> "Add two numbers", inputSchema |-> "schema_add"],
         [name |-> "echo", description |-> "Echo", inputSchema |-> "schema_echo"] >> }

\* the messages of the prompt the server returns at start-up
PromptLists ==
    { << [role |-> "user", text |-> "p1"], [role |-> "assistant", text |-> "p2"] >> }

RawInputs == {" q ", "  ", " Quit "}     \* lines typed at the prompt

VARIABLES
    pc,               \* where the program is: connect, prompts, input, call, choices, tool,
                      \* await_tool, exited
    query,            \* chat_loop's local `query` (the stripped input line)
    messages,         \* self.messages
    available_tools,  \* self.available_tools
    choice,           \* loop variable `choice` of process_openai_response (NoChoice: none)
    choice_idx,       \* its position in response.choices (0: none taken yet)
    first_choice,     \* response.choices[0] of the last response (NoChoice: not read yet)
    tool_idx,         \* position of `tool_call` in choice.message.tool_calls
    outcome,          \* of the current/last process_query: none, running, returned, raised
    result,           \* value returned by the last process_query
    error,            \* exception that left process_query (caught by chat_loop), or none
    queries,          \* process_query calls so far
    len_at_start,     \* len(self.messages) when the current process_query was entered
    completion_calls, \* call_openai calls issued by the current process_query
    tool_invocations, \* session.call_tool calls issued by the current process_query
    rounds,           \* tool rounds begun by the current process_query
    rounds_total,     \* tool rounds begun in the session
    tool_log,         \* contents returned by call_tool in the current round, in order of return
    sent,             \* messages= and tools= of the last completion call of the current query
    dispatched        \* ids of the requests handed to call_tool in the current round, in order

vars == << pc, query, messages, available_tools, choice, choice_idx, first_choice, tool_idx,
           outcome, result, error, queries, len_at_start, completion_calls,
           tool_invocations, rounds, rounds_total, tool_log, sent, dispatched >>

TypeOK ==
    /\ pc \in {"connect", "prompts", "input", "call", "choices", "tool", "await_tool",
              "exited"}
    /\ outcome \in {"none", "running", "returned", "raised"}
    /\ tool_idx \in 0..(MaxCalls + 1)

Init ==
    /\ pc = "connect"
    /\ query = None
    /\ messages = << >>
    /\ available_tools = << >>
    /\ choice = NoChoice
    /\ choice_idx = 0
    /\ first_choice = NoChoice
    /\ tool_idx = 0
    /\ outcome = "none"
    /\ result = None
    /\ error = "none"
    /\ queries = 0
    /\ len_at_start = 0
    /\ completion_calls = 0
    /\ tool_invocations = 0
    /\ rounds = 0
    /\ rounds_total = 0
    /\ tool_log = << >>
    /\ sent = NoRequest
    /\ dispatched = << >>

(* ------------------------ pure parts of the code ----------------------- *)

\* str.strip() on the lines of RawInputs
Strip(s) ==
    CASE s = " q "    -> "q"
      [] s = "  "     -> ""
      [] s = " Quit " -> "Quit"

\* str.lower() on the stripped lines
Lower(s) == IF s = "Quit" THEN "quit" ELSE s

\* get_available_tools: the list comprehension that formats the descriptors
FormatTools(descs) ==
    [i \in 1..Len(descs) |->
        [type |-> "function",
         function |-> [name |-> descs[i].name,
                       description |-> descs[i].description,
                       parameters |-> descs[i].inputSchema],
         strict |-> TRUE]]

\* get_initial_prompts: role and content.text of every prompt message
FormatPrompts(prompt) ==
    [i \in 1..Len(prompt) |-> Msg(prompt[i].role, prompt[i].text, None, NoCalls)]

\* process_query: the user message
UserMessage(q) == Msg("user", q, None, NoCalls)

\* json.loads on the argument texts: ok = FALSE stands for JSONDecodeError
JsonLoads(s) ==
    CASE s = "{\"a\": 2, \"b\": 3}" -> [ok |-> TRUE,  value |-> << <<"a", 2>>, <<"b", 3>> >>]
      [] OTHER                      -> [ok |-> FALSE, value |-> << >>]

\* variant: the tool message is tagged with the function name instead of the request id
ToolMessageNameAsId(tool_call, content) == Msg("tool", content, tool_call.name, NoCalls)

\* the dict appended for one tool call
ToolMessage(tool_call, content) == Msg("tool", content, tool_call.id, NoCalls)

\* variant: the comparison of the elif never matches, so a stop choice is passed over
BranchStopUnmatched(finish_reason) ==
    IF finish_reason = "tool_calls" THEN "tool_calls" ELSE "skip"

\* the if/elif on choice.finish_reason: the branch taken for one choice
\* ("skip": neither matches and the for loop moves on to the next choice)
Branch(finish_reason) ==
    IF finish_reason = "tool_calls" THEN "tool_calls"
    ELSE IF finish_reason = "stop" THEN "stop"
    ELSE "skip"

\* variant: the stop branch prints the text but does not return it
StopResultNone(ch) == None

\* value of `return choice.message.content`
StopResult(ch) == ch.message.content

\* variant: the completion call is made without tools=
CompletionRequestNoTools(msgs, tools) ==
    [messages |-> msgs, tools |-> << >>, issued |-> TRUE]

\* call_openai: the arguments of chat.completions.create
CompletionRequest(msgs, tools) ==
    [messages |-> msgs, tools |-> tools, issued |-> TRUE]

\* variant: the follow-up completion call sits inside the loop over the tool calls
AfterToolResultEachTime(i, n) == "call"

\* variant: the loop over the tool calls stops one request early
AfterToolResultSkipsLast(i, n) == IF i + 1 < n THEN "tool" ELSE "call"

\* where the loop over choice.message.tool_calls goes after appending result number i
AfterToolResult(i, n) == IF i < n THEN "tool" ELSE "call"

(* ------------------------------ bootstrap ------------------------------ *)

GetAvailableTools ==
    /\ pc = "connect"
    /\ \E descs \in ToolDescriptorLists : available_tools' = FormatTools(descs)
    /\ pc' = "prompts"
    /\ UNCHANGED << sent, dispatched, query, messages, choice, choice_idx, first_choice, tool_idx, outcome,
                    result, error, queries, len_at_start, completion_calls,
                    tool_invocations, rounds, rounds_total, tool_log >>

GetInitialPrompts ==
    /\ pc = "prompts"
    /\ \E prompt \in PromptLists : messages' = FormatPrompts(prompt)
    /\ pc' = "input"
    /\ UNCHANGED << sent, dispatched, query, available_tools, choice, choice_idx, first_choice, tool_idx,
                    outcome, result, error, queries, len_at_start, completion_calls,
                    tool_invocations, rounds, rounds_total, tool_log >>

(* ------------------------------ chat_loop ------------------------------ *)

ReadQuit ==
    /\ pc = "input"
    /\ \E raw \in RawInputs :
          /\ Lower(Strip(raw)) = "quit"
          /\ query' = Strip(raw)
    /\ pc' = "exited"
    /\ UNCHANGED << sent, dispatched, messages, available_tools, choice, choice_idx, first_choice, tool_idx,
                    outcome, result, error, queries, len_at_start, completion_calls,
                    tool_invocations, rounds, rounds_total, tool_log >>

ReadEmpty ==
    /\ pc = "input"
    /\ \E raw \in RawInputs :
          /\ Lower(Strip(raw)) # "quit"
          /\ Strip(raw) = ""
          /\ query' = Strip(raw)
    /\ UNCHANGED << sent, dispatched, pc, messages, available_tools, choice, choice_idx, first_choice,
                    tool_idx, outcome, result, error, queries, len_at_start,
                    completion_calls, tool_invocations, rounds, rounds_total, tool_log >>

\* variant: process_query starts a fresh history for every query
ProcessQueryResetsHistory ==
    /\ pc = "input"
    /\ queries < MaxQueries
    /\ \E raw \in RawInputs :
          /\ Lower(Strip(raw)) # "quit"
          /\ Strip(raw) # ""
          /\ query' = Strip(raw)
          /\ messages' = << UserMessage(Strip(raw)) >>
    /\ pc' = "call"
    /\ outcome' = "running"
    /\ result' = None
    /\ error' = "none"
    /\ queries' = queries + 1
    /\ len_at_start' = 0
    /\ completion_calls' = 0
    /\ tool_invocations' = 0
    /\ rounds' = 0
    /\ choice' = NoChoice
    /\ choice_idx' = 0
    /\ first_choice' = NoChoice
    /\ tool_idx' = 0
    /\ tool_log' = << >>
    /\ sent' = NoRequest
    /\ dispatched' = << >>
    /\ UNCHANGED << available_tools, rounds_total >>

\* a non-empty query: chat_loop calls process_query, which appends the user message
ProcessQuery ==
    /\ pc = "input"
    /\ queries < MaxQueries
    /\ \E raw \in RawInputs :
          /\ Lower(Strip(raw)) # "quit"
          /\ Strip(raw) # ""
          /\ query' = Strip(raw)
          /\ messages' = Append(messages, UserMessage(Strip(raw)))
    /\ pc' = "call"
    /\ outcome' = "running"
    /\ result' = None
    /\ error' = "none"
    /\ queries' = queries + 1
    /\ len_at_start' = Len(messages)
    /\ completion_calls' = 0
    /\ tool_invocations' = 0
    /\ rounds' = 0
    /\ choice' = NoChoice
    /\ choice_idx' = 0
    /\ first_choice' = NoChoice
    /\ tool_idx' = 0
    /\ tool_log' = << >>
    /\ sent' = NoRequest
    /\ dispatched' = << >>
    /\ UNCHANGED << available_tools, rounds_total >>

(* ------------- call_openai + process_openai_response ------------------- *)

\* the completion call raises: the exception leaves process_query, chat_loop prints it
CallOpenAIRaises ==
    /\ pc = "call"
    /\ completion_calls' = completion_calls + 1
    /\ outcome' = "raised"
    /\ error' = "APIError"
    /\ pc' = "input"
    /\ sent' = CompletionRequest(messages, available_tools)
    /\ UNCHANGED << dispatched, query, messages, available_tools, choice, choice_idx, first_choice,
                    tool_idx, result, queries, len_at_start, tool_invocations, rounds,
                    rounds_total, tool_log >>

\* the completion call ends with asyncio.CancelledError (raised by the call, or the
\* task is cancelled while it is awaited): a BaseException, which `except Exception`
\* (line 152) lets pass, so chat_loop is left
CallOpenAICancelled ==
    /\ pc = "call"
    /\ completion_calls' = completion_calls + 1
    /\ outcome' = "raised"
    /\ error' = "CancelledError"
    /\ pc' = "exited"
    /\ sent' = CompletionRequest(messages, available_tools)
    /\ UNCHANGED << dispatched, query, messages, available_tools, choice, choice_idx, first_choice,
                    tool_idx, result, queries, len_at_start, tool_invocations, rounds,
                    rounds_total, tool_log >>

\* the completion call returns a response; process_openai_response is entered
\* and stands at the head of `for choice in response.choices`
CallOpenAIReturns ==
    /\ pc = "call"
    /\ completion_calls' = completion_calls + 1
    /\ choice' = NoChoice
    /\ choice_idx' = 0
    /\ first_choice' = NoChoice
    /\ pc' = "choices"
    /\ sent' = CompletionRequest(messages, available_tools)
    /\ UNCHANGED << dispatched, query, messages, available_tools, tool_idx, outcome, result, error,
                    queries, len_at_start, tool_invocations, rounds, rounds_total,
                    tool_log >>

\* the for loop takes the next choice c of the response
NextChoice(c) ==
    /\ pc = "choices"
    /\ choice_idx < MaxChoices
    /\ choice' = c
    /\ choice_idx' = choice_idx + 1
    /\ first_choice' = IF choice_idx = 0 THEN c ELSE first_choice

\* the choice has finish_reason tool_calls: its message is appended and the loop
\* over its tool calls starts
ProcessToolCalls ==
    /\ rounds_total < MaxRounds
    /\ \E c \in Choices :
          /\ Branch(c.finish_reason) = "tool_calls"
          /\ NextChoice(c)
          /\ messages' = Append(messages, c.message)
    /\ tool_idx' = 1
    /\ tool_log' = << >>
    /\ rounds' = rounds + 1
    /\ rounds_total' = rounds_total + 1
    /\ pc' = "tool"
    /\ dispatched' = << >>
    /\ UNCHANGED << sent, query, available_tools, outcome, result, error, queries, len_at_start,
                    completion_calls, tool_invocations >>

\* the choice has finish_reason stop; the print of "\nAssistant: " + content
\* raises TypeError when content is None
ProcessStop ==
    /\ \E c \in Choices :
          /\ Branch(c.finish_reason) = "stop"
          /\ NextChoice(c)
          /\ IF c.message.content = None
             THEN /\ outcome' = "raised"
                  /\ error' = "TypeError"
                  /\ result' = result
             ELSE /\ outcome' = "returned"
                  /\ error' = error
                  /\ result' = StopResult(c)
    /\ pc' = "input"
    /\ UNCHANGED << sent, dispatched, query, messages, available_tools, tool_idx, queries, len_at_start,
                    completion_calls, tool_invocations, rounds, rounds_total, tool_log >>

\* the choice has another finish_reason: neither branch is taken and the for
\* loop goes on
SkipChoice ==
    /\ \E c \in Choices :
          /\ Branch(c.finish_reason) = "skip"
          /\ NextChoice(c)
    /\ UNCHANGED << sent, dispatched, pc, query, messages, available_tools, tool_idx, outcome, result, error,
                    queries, len_at_start, completion_calls, tool_invocations, rounds,
                    rounds_total, tool_log >>

\* response.choices (at least one choice) is exhausted without a branch taken:
\* the function falls off its end and returns None
ProcessUnhandled ==
    /\ pc = "choices"
    /\ choice_idx >= 1
    /\ outcome' = "returned"
    /\ result' = None
    /\ pc' = "input"
    /\ UNCHANGED << sent, dispatched, query, messages, available_tools, choice, choice_idx, first_choice,
                    tool_idx, error, queries, len_at_start, completion_calls,
                    tool_invocations, rounds, rounds_total, tool_log >>

(* ------------------ the loop over choice.message.tool_calls ------------ *)

\* variant: the requests are walked from the last to the first
ToolCallReversed ==
    choice.message.tool_calls[Len(choice.message.tool_calls) + 1 - tool_idx]

\* the loop variable `tool_call`
ToolCall == choice.message.tool_calls[tool_idx]

\* json.loads succeeds and session.call_tool is issued
DispatchTool ==
    /\ pc = "tool"
    /\ JsonLoads(ToolCall.arguments).ok
    /\ tool_invocations' = tool_invocations + 1
    /\ pc' = "await_tool"
    /\ dispatched' = Append(dispatched, ToolCall.id)
    /\ UNCHANGED << sent, query, messages, available_tools, choice, choice_idx, first_choice,
                    tool_idx, outcome, result, error, queries, len_at_start,
                    completion_calls, rounds, rounds_total, tool_log >>

\* json.loads raises JSONDecodeError
ArgumentsMalformed ==
    /\ pc = "tool"
    /\ ~ JsonLoads(ToolCall.arguments).ok
    /\ outcome' = "raised"
    /\ error' = "JSONDecodeError"
    /\ pc' = "input"
    /\ UNCHANGED << sent, dispatched, query, messages, available_tools, choice, choice_idx, first_choice,
                    tool_idx, result, queries, len_at_start, completion_calls,
                    tool_invocations, rounds, rounds_total, tool_log >>

\* session.call_tool returns: the tool message is appended
ToolReturns ==
    /\ pc = "await_tool"
    /\ \E content \in ToolContents :
          /\ messages' = Append(messages, ToolMessage(ToolCall, content))
          /\ tool_log' = Append(tool_log, content)
    /\ tool_idx' = tool_idx + 1
    /\ pc' = AfterToolResult(tool_idx, Len(choice.message.tool_calls))
    /\ UNCHANGED << sent, dispatched, query, available_tools, choice, choice_idx, first_choice, outcome,
                    result, error, queries, len_at_start, completion_calls,
                    tool_invocations, rounds, rounds_total >>

\* session.call_tool raises
ToolRaises ==
    /\ pc = "await_tool"
    /\ outcome' = "raised"
    /\ error' = "ToolError"
    /\ pc' = "input"
    /\ UNCHANGED << sent, dispatched, query, messages, available_tools, choice, choice_idx, first_choice,
                    tool_idx, result, queries, len_at_start, completion_calls,
                    tool_invocations, rounds, rounds_total, tool_log >>

\* session.call_tool ends with asyncio.CancelledError: not caught by line 152,
\* chat_loop is left in the middle of the query
ToolCancelled ==
    /\ pc = "await_tool"
    /\ outcome' = "raised"
    /\ error' = "CancelledError"
    /\ pc' = "exited"
    /\ UNCHANGED << sent, dispatched, query, messages, available_tools, choice, choice_idx, first_choice,
                    tool_idx, result, queries, len_at_start, completion_calls,
                    tool_invocations, rounds, rounds_total, tool_log >>

Next ==
    \/ GetAvailableTools
    \/ GetInitialPrompts
    \/ ReadQuit
    \/ ReadEmpty
    \/ ProcessQuery
    \/ CallOpenAIRaises
    \/ CallOpenAICancelled
    \/ CallOpenAIReturns
    \/ ProcessToolCalls
    \/ ProcessStop
    \/ SkipChoice
    \/ ProcessUnhandled
    \/ DispatchTool
    \/ ArgumentsMalformed
    \/ ToolReturns
    \/ ToolRaises
    \/ ToolCancelled

Spec == Init /\ [][Next]_vars

(* ======================= properties of the code ======================== *)

IsToolRequest(m) == m.role = "assistant" /\ m.tool_calls # NoCalls

\* the current/last process_query ended by returning from the stop branch
ReturnedFromStop ==
    /\ outcome = "returned"
    /\ choice.finish_reason = "stop"

\* C1 (as claimed): a query resolved by k tool rounds and a stop response grows
\* the history by exactly 1 + 2*k + 1 messages.
C1_GrowthAsClaimed ==
    ReturnedFromStop => Len(messages) = len_at_start + 1 + 2 * rounds + 1

\* C2: when process_query returns from a stop response, the value returned is the
\* text content of that response's assistant message, and it is a text, not None.
C2_ReturnsFinalText ==
    ReturnedFromStop =>
        /\ result = choice.message.content
        /\ result \in AnswerTexts

C2_Witness ==
    /\ ReturnedFromStop
    /\ rounds = 2
    /\ result = "t2"

\* C3: every tool message has the id of a request of the nearest preceding
\* assistant message, and only tool messages lie between the two.
C3_ToolIdsReferToAssistant ==
    \A i \in 1..Len(messages) :
        messages[i].role = "tool" =>
            \E j \in 1..(i - 1) :
                /\ messages[j].role = "assistant"
                /\ \A k \in (j + 1)..(i - 1) : messages[k].role = "tool"
                /\ \E n \in 1..Len(messages[j].tool_calls) :
                       messages[j].tool_calls[n].id = messages[i].tool_call_id

C3_Witness ==
    \E i \in 3..Len(messages) :
        /\ messages[i].role = "tool"
        /\ messages[i - 1].role = "tool"
        /\ messages[i].tool_call_id = "call_1"
        /\ messages[i - 1].tool_call_id = "call_2"
        /\ queries = 2

\* C4: the tool messages that follow an assistant message are in the order of its
\* requests: the k-th tool message after it answers its k-th request; and while
\* request number tool_idx is being dispatched, exactly the results of the requests
\* before it have come back (one invocation in flight at a time).
C4_ToolMessagesInEmissionOrder ==
    /\ \A j \in 1..Len(messages) :
          messages[j].role = "assistant" =>
              \A k \in 1..(Len(messages) - j) :
                  (\A l \in 1..k : messages[j + l].role = "tool") =>
                      /\ k <= Len(messages[j].tool_calls)
                      /\ messages[j + k].tool_call_id = messages[j].tool_calls[k].id
    /\ pc \in {"tool", "await_tool"} =>
          /\ Len(tool_log) = tool_idx - 1
          /\ IsToolRequest(messages[Len(messages) - Len(tool_log)])
          /\ messages[Len(messages) - Len(tool_log)] = choice.message

C4_Witness ==
    \E j \in 1..(Len(messages) - 2) :
        /\ IsToolRequest(messages[j])
        /\ Len(messages[j].tool_calls) = 2
        /\ messages[j].tool_calls[1].id = "call_2"
        /\ messages[j].tool_calls[2].id = "call_1"
        /\ messages[j + 1].role = "tool"
        /\ messages[j + 2].role = "tool"

\* C5 (as claimed): a failing tool invocation (call_tool raises, or the arguments
\* do not parse) never propagates out of process_query.
C5_ToolFailureRecoveredAsClaimed ==
    ~ (outcome = "raised" /\ error \in {"JSONDecodeError", "ToolError"})

\* C6 (as claimed): when a tool round is over, its loop has visited every request
\* of the round, also those after a request whose invocation failed.
C6_SiblingsDispatchedAsClaimed ==
    (pc \notin {"tool", "await_tool"} /\ choice.finish_reason = "tool_calls") =>
        tool_idx >= Len(choice.message.tool_calls)

\* C7 (as claimed): process_query never returns normally with an absent answer;
\* a finish_reason other than tool_calls and stop ends it with an error.
C7_UnhandledReasonRaisesAsClaimed ==
    ~ (outcome = "returned" /\ result = None)

\* C8 (as claimed): the resolver reads and acts on the first choice of a response
\* only, whatever that choice's finish_reason is; its loop never takes a later one.
C8_ActsOnFirstChoiceAsClaimed ==
    /\ choice_idx \in {0, 1}
    /\ choice_idx = 1 => choice = first_choice

\* C9: when the first response of a query has finish_reason stop (with a text),
\* the query is over after that one completion call, without a tool round or tool
\* invocation, and has returned that response's text.
C9_ImmediateStop ==
    (rounds = 0 /\ first_choice.finish_reason = "stop"
                /\ first_choice.message.content # None) =>
        /\ pc \in {"input", "exited"}
        /\ outcome = "returned"
        /\ result = first_choice.message.content
        /\ completion_calls = 1
        /\ tool_invocations = 0
        /\ Len(messages) = len_at_start + 1

C9_Witness ==
    /\ completion_calls = 1
    /\ first_choice.finish_reason = "stop"
    /\ result = "t1"
    /\ outcome = "returned"
    /\ queries = 2

\* the last n messages of the history
LastMessages(n) == SubSeq(messages, Len(messages) - n + 1, Len(messages))

\* C10: a tool round whose invocations all returned is followed by one completion
\* call, issued with every returned content in the history as a tool message; a
\* query with k tool rounds that ends in stop has issued k + 1 completion calls.
C10_OneCallPerRound ==
    /\ (pc \in {"tool", "await_tool"}) => completion_calls = rounds
    /\ (pc = "call" /\ rounds >= 1) =>
          /\ completion_calls = rounds
          /\ Len(tool_log) = Len(choice.message.tool_calls)
          /\ \A k \in 1..Len(tool_log) :
                LET m == LastMessages(Len(tool_log))[k] IN
                /\ m.role = "tool"
                /\ m.content = tool_log[k]
                /\ m.tool_call_id = choice.message.tool_calls[k].id
    /\ ReturnedFromStop => completion_calls = rounds + 1

C10_Witness ==
    /\ ReturnedFromStop
    /\ rounds = 2
    /\ completion_calls = 3
    /\ \E i \in 1..Len(messages) : messages[i].role = "tool" /\ messages[i].content = "5"

\* process_query is being resolved (entered, neither returned nor raised)
Resolving == pc \in {"call", "choices", "tool", "await_tool"}

C12_ErrorsDoNotEndLoopAsClaimed ==
    /\ outcome = "raised" => (error # "none" /\ (pc = "input" \/ Lower(query) = "quit"))
    /\ pc = "exited" => Lower(query) = "quit"
    /\ (pc = "input" /\ outcome = "raised" /\ queries < MaxQueries) => ENABLED ProcessQuery

\* position of the last assistant message with tool calls in a history (0: none)
LastRequestPos(msgs) ==
    IF \E j \in 1..Len(msgs) : IsToolRequest(msgs[j])
    THEN CHOOSE j \in 1..Len(msgs) :
            /\ IsToolRequest(msgs[j])
            /\ \A k \in (j + 1)..Len(msgs) : ~ IsToolRequest(msgs[k])
    ELSE 0

\* C13: the history passed to a completion call that follows a tool round ends
\* with that round's assistant message and one tool message for each of its
\* requests; while a round is in progress no further completion call is issued.
C13_RoundAnsweredBeforeCall ==
    /\ (rounds >= 1 /\ completion_calls = rounds + 1) =>
          LET h == sent.messages
              j == LastRequestPos(h) IN
          /\ sent.issued
          /\ j >= 1
          /\ h[j] = choice.message \/ choice.finish_reason # "tool_calls"
          /\ Len(h) = j + Len(h[j].tool_calls)
          /\ \A k \in 1..Len(h[j].tool_calls) :
                /\ h[j + k].role = "tool"
                /\ h[j + k].tool_call_id = h[j].tool_calls[k].id
    /\ pc \in {"tool", "await_tool"} =>
          /\ completion_calls = rounds
          /\ Len(sent.messages) < Len(messages)

C13_Witness ==
    /\ rounds = 2
    /\ completion_calls = 3
    /\ Len(sent.messages) = len_at_start + 7

\* C14: once the history is seeded, every step leaves the messages it holds in
\* place: the history before a step is a prefix of the history after it.
C14_HistoryAppendOnly ==
    [][ pc \notin {"connect", "prompts"} =>
           /\ Len(messages') >= Len(messages)
           /\ SubSeq(messages', 1, Len(messages)) = messages ]_vars

C14_Witness ==
    /\ queries = 2
    /\ Len(messages) >= 8
    /\ messages[1].content = "p1"
    /\ messages[Len(messages)].role = "tool"

\* C15: the catalog is set during bootstrap only; no later step changes it, and
\* every completion call is made with exactly that catalog as tools=.
C15_CatalogImmutable ==
    [][ /\ pc # "connect" => available_tools' = available_tools
        /\ (pc = "call" /\ pc' # "call") =>
              /\ sent'.issued
              /\ sent'.tools = available_tools
              /\ \E descs \in ToolDescriptorLists : sent'.tools = FormatTools(descs)
      ]_vars

C15_Witness ==
    /\ queries = 2
    /\ completion_calls = 2
    /\ sent.issued
    /\ Len(sent.tools) = 2
    /\ sent.tools = available_tools

\* C16 (as claimed): the loop ends, and a query is accepted, only at the prompt with no
\* process_query in progress; a process_query in progress reads no input and is
\* left only by returning or raising.
C16_QuitOnlyBetweenQueriesAsClaimed ==
    [][ /\ pc' = "exited" => (pc = "input" /\ outcome # "running")
        /\ queries' # queries => (pc = "input" /\ outcome # "running")
        /\ Resolving => query' = query
        /\ (Resolving /\ ~ Resolving') =>
              (pc' = "input" /\ outcome' \in {"returned", "raised"})
        /\ Resolving' => outcome' = "running"
      ]_vars

\* every request of every assistant message of a history has a tool message with
\* its id later in that history
AllRequestsAnswered(msgs) ==
    \A j \in 1..Len(msgs) :
        \A n \in 1..Len(msgs[j].tool_calls) :
            \E i \in (j + 1)..Len(msgs) :
                /\ msgs[i].role = "tool"
                /\ msgs[i].tool_call_id = msgs[j].tool_calls[n].id

\* C18 (as claimed): the history of every completion call, also of calls made
\* after a failed query, has no tool-call request without its tool message.
C18_NoUnansweredRequestSentAsClaimed ==
    sent.issued => AllRequestsAnswered(sent.messages)

\* ids of the requests of an assistant message, in emission order
RequestIds(m) == [k \in 1..Len(m.tool_calls) |-> m.tool_calls[k].id]

\* C19 (as claimed): when a round is over every request of it has been handed to
\* call_tool exactly once, in emission order; a request is dispatched only when the
\* results of all earlier ones are appended; no invocation happens before the
\* first completion call or outside a tool_calls choice.
C19_EachRequestDispatchedOnceAsClaimed ==
    /\ (pc \notin {"tool", "await_tool"} /\ choice.finish_reason = "tool_calls") =>
          dispatched = RequestIds(choice.message)
    /\ pc = "await_tool" => Len(tool_log) = Len(dispatched) - 1
    /\ pc = "tool" => Len(tool_log) = Len(dispatched)
    /\ completion_calls = 0 => tool_invocations = 0
    /\ pc \in {"tool", "await_tool"} => choice.finish_reason = "tool_calls"
====
